---- MODULE Spec2Model ----
(***************************************************************************)
(* SprayMaster Pro: the estimation workspace of src/App.tsx.               *)
(*                                                                         *)
(* The React state of the App component (EstimationState), the list of     *)
(* saved projects and the calculateEstimation calls suspended at their     *)
(* `await analyzeArtworkColors(...)` are the state of the model.  Every    *)
(* event handler is one action.                                            *)
(*                                                                         *)
(* Numbers.  Lengths are in decimetres, areas in dm2, so the default       *)
(* surface 2.0 m x 2.5 m is 20 x 25 = 500 dm2.  A colour's covered area    *)
(* (percentage / 100) * itemArea is kept as percentage * itemArea, i.e. in *)
(* hundredths of a dm2, and AnalysisResult.percentage in hundredths of a   *)
(* percent, so that the arithmetic of the code is exact integer            *)
(* arithmetic.  NaN is the IEEE not-a-number of JavaScript.                *)
(*                                                                         *)
(* Where the rounding of JavaScript numbers decides the outcome (a whole   *)
(* calculateEstimation run and the same run with its inputs reordered,     *)
(* SpecAggregate), the numbers are IEEE 754 binary64 doubles: a mantissa   *)
(* of 53 bits and an exponent, rounded to nearest, ties to even.  The      *)
(* variable call holds the arguments and the return value of a function    *)
(* that is applied on its own (findNearestColor in SpecNearest, a whole    *)
(* run in SpecAggregate); it is NoCall in the workspace specifications.    *)
(*                                                                         *)
(* Strings that the code takes apart (hex colours, colour codes) are       *)
(* sequences of one-character strings.                                     *)
(***************************************************************************)
EXTENDS Integers, Sequences, FiniteSets, TLC

VARIABLES state, savedProjects, runs, call

vars == <<state, savedProjects, runs, call>>

----------------------------------------------------------------------------
(* Bounds of the exploration *)

MaxItems == 2
MaxSaved == 1
MaxRuns == 2
MaxCans == 1

----------------------------------------------------------------------------
(* JavaScript values *)

NaN == -7777777
Infinity == 7777777

NULL == <<>>
Some(v) == <<v>>

NoImage == "null"
NoError == "null"
AnalysisFailed == "analysis failed"

\* a null where a number is expected (a NaN that went through JSON)
JsNull == -8888888

IsNaN(x) == x = NaN
\* null is 0 in arithmetic and in comparisons
ToNumber(x) == IF x = JsNull THEN 0 ELSE x

Add(a, b) == IF IsNaN(a) \/ IsNaN(b) THEN NaN ELSE ToNumber(a) + ToNumber(b)
Sub(a, b) == IF IsNaN(a) \/ IsNaN(b) THEN NaN ELSE ToNumber(a) - ToNumber(b)
Mul(a, b) == IF IsNaN(a) \/ IsNaN(b) THEN NaN ELSE ToNumber(a) * ToNumber(b)
\* a < b of JavaScript: false as soon as one side is NaN
Lt(a, b) == ~IsNaN(a) /\ ~IsNaN(b) /\ ToNumber(a) < ToNumber(b)
\* Math.max(a, b)
MathMax(a, b) ==
  IF IsNaN(a) \/ IsNaN(b) THEN NaN
  ELSE IF ToNumber(a) < ToNumber(b) THEN ToNumber(b) ELSE ToNumber(a)
\* Math.ceil(n / d), n >= 0, d > 0
CeilDiv(n, d) == IF IsNaN(n) THEN NaN ELSE (n + d - 1) \div d
\* Math.round(n / d), n >= 0, d > 0: halves go up
RoundDiv(n, d) == IF IsNaN(n) THEN NaN ELSE (2 * n + d) \div (2 * d)

Min(a, b) == IF a < b THEN a ELSE b

\* s.slice(from, to) of a string
Slice(s, from, to) == SubSeq(s, from + 1, Min(to, Len(s)))

----------------------------------------------------------------------------
(* The Number of JavaScript as it is: IEEE 754 binary64, round to nearest, *)
(* ties to even.  A positive double is m * 2^e with 2^52 <= m < 2^53; a    *)
(* natural number of that size is written in base 2^15, lowest digit       *)
(* first, without leading zero digits.  Used where a claim is about sums   *)
(* of areas; only finite numbers >= 0 occur there.                         *)

MantissaBits == 53
DigitBits == 15

PowersOfTwo == <<1, 2, 4, 8, 16, 32, 64, 128, 256, 512, 1024, 2048, 4096,
                 8192, 16384, 32768>>
Pow2(k) == PowersOfTwo[k + 1]
Base == Pow2(DigitBits)

RECURSIVE NatToBig(_)
NatToBig(n) == IF n = 0 THEN <<>> ELSE <<n % Base>> \o NatToBig(n \div Base)

\* of a number below 2^31
RECURSIVE BigToNat(_)
BigToNat(a) == IF a = <<>> THEN 0 ELSE a[1] + Base * BigToNat(Tail(a))

Rest(a) == IF a = <<>> THEN <<>> ELSE Tail(a)
Low(a) == IF a = <<>> THEN 0 ELSE a[1]

RECURSIVE Trimmed(_)
Trimmed(a) ==
  IF a = <<>> THEN <<>>
  ELSE IF a[Len(a)] = 0 THEN Trimmed(SubSeq(a, 1, Len(a) - 1))
  ELSE a

RECURSIVE BigAdd(_, _, _)
BigAdd(a, b, carry) ==
  IF a = <<>> /\ b = <<>> THEN (IF carry = 0 THEN <<>> ELSE <<carry>>)
  ELSE LET sum == Low(a) + Low(b) + carry
       IN <<sum % Base>> \o BigAdd(Rest(a), Rest(b), sum \div Base)

\* a * k + carry for a digit k
RECURSIVE BigMulDigit(_, _, _)
BigMulDigit(a, k, carry) ==
  IF a = <<>> THEN (IF carry = 0 THEN <<>> ELSE <<carry>>)
  ELSE LET prod == a[1] * k + carry
       IN <<prod % Base>> \o BigMulDigit(Tail(a), k, prod \div Base)

RECURSIVE BigMul(_, _)
BigMul(a, b) ==
  IF a = <<>> \/ b = <<>> THEN <<>>
  ELSE LET upper == BigMul(a, Tail(b))
       IN Trimmed(BigAdd(BigMulDigit(a, b[1], 0),
                         IF upper = <<>> THEN <<>> ELSE <<0>> \o upper, 0))

\* the long division of a by d, 0 < d <= 2^15, from digit i down
RECURSIVE BigDivFrom(_, _, _, _, _)
BigDivFrom(a, i, d, r, q) ==
  IF i = 0 THEN [q |-> Trimmed(q), r |-> r]
  ELSE LET n == r * Base + a[i]
       IN BigDivFrom(a, i - 1, d, n % d, <<n \div d>> \o q)

BigDiv(a, d) == BigDivFrom(a, Len(a), d, 0, <<>>)

RECURSIVE BitLength(_)
BitLength(n) == IF n = 0 THEN 0 ELSE 1 + BitLength(n \div 2)

BigBitLength(a) ==
  IF a = <<>> THEN 0 ELSE DigitBits * (Len(a) - 1) + BitLength(a[Len(a)])

\* a * 2^s
BigShiftLeft(a, s) ==
  IF a = <<>> THEN <<>>
  ELSE [j \in 1..(s \div DigitBits) |-> 0] \o BigMulDigit(a, Pow2(s % DigitBits), 0)

\* a div 2^s, and whether a bit was lost
BigShiftRight(a, s) ==
  LET drop == Min(s \div DigitBits, Len(a))
      qr == BigDiv(SubSeq(a, drop + 1, Len(a)), Pow2(s % DigitBits))
  IN [q |-> qr.q,
      lost |-> qr.r # 0 \/ \E j \in 1..drop : a[j] # 0]

DoubleZero == [m |-> <<>>, e |-> 0]

\* a * 2^e (plus a rest below the lowest bit when sticky) rounded to a double
RoundToDouble(a, e, sticky) ==
  LET len == BigBitLength(a)
  IN IF a = <<>> THEN DoubleZero
     ELSE IF len <= MantissaBits
     THEN [m |-> BigShiftLeft(a, MantissaBits - len), e |-> e - (MantissaBits - len)]
     ELSE LET shift == len - MantissaBits
              above == BigShiftRight(a, shift - 1)
              half == above.q[1] % 2 = 1
              kept == BigShiftRight(above.q, 1).q
              more == sticky \/ above.lost
              up == half /\ (more \/ kept[1] % 2 = 1)
              m == IF up THEN BigAdd(kept, <<>>, 1) ELSE kept
          IN IF BigBitLength(m) > MantissaBits
             THEN [m |-> BigShiftRight(m, 1).q, e |-> e + shift + 1]
             ELSE [m |-> m, e |-> e + shift]

\* the double of a natural number below 2^31
DoubleOf(n) == RoundToDouble(NatToBig(n), 0, FALSE)

\* x + y
DoubleAdd(x, y) ==
  IF x.m = <<>> THEN y
  ELSE IF y.m = <<>> THEN x
  ELSE LET e == Min(x.e, y.e)
       IN RoundToDouble(Trimmed(BigAdd(BigShiftLeft(x.m, x.e - e),
                                       BigShiftLeft(y.m, y.e - e), 0)),
                        e, FALSE)

\* x * y
DoubleMul(x, y) == RoundToDouble(BigMul(x.m, y.m), x.e + y.e, FALSE)

\* Math.floor(x), a natural number below 2^31, and whether x is above it
FloorOf(x) ==
  IF x.m = <<>> THEN [q |-> 0, lost |-> FALSE]
  ELSE IF x.e >= 0 THEN [q |-> BigToNat(BigShiftLeft(x.m, x.e)), lost |-> FALSE]
  ELSE LET shifted == BigShiftRight(x.m, -x.e)
       IN [q |-> BigToNat(shifted.q), lost |-> shifted.lost]

\* x / d for a double d that is a natural number, 0 < d < 2^12
DoubleDiv(x, d) ==
  IF x.m = <<>> THEN DoubleZero
  ELSE LET qr == BigDiv(<<0>> \o x.m, FloorOf(d).q)
       IN RoundToDouble(qr.q, x.e - DigitBits, qr.r # 0)

\* Math.ceil(x)
MathCeil(x) == IF FloorOf(x).lost THEN FloorOf(x).q + 1 ELSE FloorOf(x).q

\* Math.round(x): halves go up
MathRound(x) ==
  LET twice == FloorOf([x EXCEPT !.e = @ + 1]).q
  IN IF x.m = <<>> THEN 0 ELSE (twice \div 2) + (twice % 2)

----------------------------------------------------------------------------
(* types.ts *)

MOLOTOW == "MOLOTOW"
MONTANA_COLORS == "Montana Colors (MTN)"
SprayBrand == {MOLOTOW, MONTANA_COLORS}

MOLOTOW_PREMIUM == "Premium"
MTN_94 == "94"
MTN_HARDCORE == "Hardcore"
SprayLine == {MOLOTOW_PREMIUM, MTN_94, MTN_HARDCORE}

----------------------------------------------------------------------------
(* constants.ts: the catalog *)

\* area one can covers, in m2
CAN_COVERAGE == 5
\* the same in hundredths of a dm2
CanCoverageUnits == CAN_COVERAGE * 10000

BRAND_LINES ==
  [b \in SprayBrand |->
     IF b = MOLOTOW THEN <<MOLOTOW_PREMIUM>> ELSE <<MTN_94, MTN_HARDCORE>>]

BRAND_COLORS ==
  << [brand |-> MOLOTOW, line |-> MOLOTOW_PREMIUM, name |-> "Signal Green",
      code |-> <<"C", "1", "0">>, hex |-> <<"#", "0", "0", "F", "F", "0", "0">>],
     [brand |-> MOLOTOW, line |-> MOLOTOW_PREMIUM, name |-> "Traffic Red",
      code |-> <<"C", "2">>, hex |-> <<"#", "F", "F", "0", "0", "0", "0">>],
     [brand |-> MONTANA_COLORS, line |-> MTN_94, name |-> "Light Red",
      code |-> <<"C", "9">>, hex |-> <<"#", "E", "E", "1", "1", "1", "1">>],
     [brand |-> MONTANA_COLORS, line |-> MTN_HARDCORE, name |-> "Valley Green",
      code |-> <<"C", "9">>, hex |-> <<"#", "1", "1", "E", "E", "1", "1">>] >>

InPalette(brand, line, c) == c.brand = brand /\ c.line = line

\* BRAND_COLORS.filter(c => c.brand === brand && c.line === line)
PaletteOf(brand, line) ==
  LET Keep(c) == InPalette(brand, line, c) IN SelectSeq(BRAND_COLORS, Keep)

----------------------------------------------------------------------------
(* findNearestColor *)

HexDigits == <<"0", "1", "2", "3", "4", "5", "6", "7",
               "8", "9", "A", "B", "C", "D", "E", "F">>

HexChars == {HexDigits[i] : i \in DOMAIN HexDigits}
HexValues ==
  [ch \in HexChars |-> (CHOOSE i \in DOMAIN HexDigits : HexDigits[i] = ch) - 1]

IsHexDigit(ch) == ch \in HexChars
HexValue(ch) == HexValues[ch]

\* parseInt(s, 16) of a string of at most two characters
parseInt16(s) ==
  IF Len(s) = 0 \/ ~IsHexDigit(s[1]) THEN NaN
  ELSE IF Len(s) = 1 \/ ~IsHexDigit(s[2]) THEN HexValue(s[1])
  ELSE 16 * HexValue(s[1]) + HexValue(s[2])

hexToRgb(hex) ==
  [r |-> parseInt16(Slice(hex, 1, 3)),
   g |-> parseInt16(Slice(hex, 3, 5)),
   b |-> parseInt16(Slice(hex, 5, 7))]

Sq(x) == Mul(x, x)

\* 100 * (the sum under the square root); the square root is monotone
colorDistance(c1, c2) ==
  Add(Add(Mul(Sq(Sub(c1.r, c2.r)), 30), Mul(Sq(Sub(c1.g, c2.g)), 59)),
      Mul(Sq(Sub(c1.b, c2.b)), 11))

RECURSIVE NearestFrom(_, _, _, _, _)
NearestFrom(targetRgb, palette, i, minDistance, nearest) ==
  IF i > Len(palette) THEN nearest
  ELSE LET dist == colorDistance(targetRgb, hexToRgb(palette[i].hex))
       IN IF Lt(dist, minDistance)
          THEN NearestFrom(targetRgb, palette, i + 1, dist, palette[i])
          ELSE NearestFrom(targetRgb, palette, i + 1, minDistance, nearest)

\* the loop with <= in the place of <: the last of the nearest colours wins
RECURSIVE NearestFromLastWins(_, _, _, _, _)
NearestFromLastWins(targetRgb, palette, i, minDistance, nearest) ==
  IF i > Len(palette) THEN nearest
  ELSE LET dist == colorDistance(targetRgb, hexToRgb(palette[i].hex))
       IN IF ~Lt(minDistance, dist)
          THEN NearestFromLastWins(targetRgb, palette, i + 1, dist, palette[i])
          ELSE NearestFromLastWins(targetRgb, palette, i + 1, minDistance, nearest)

findNearestColorLastWins(targetHex, palette) ==
  NearestFromLastWins(hexToRgb(targetHex), palette, 1, Infinity, palette[1])

\* palette is not empty (an empty palette makes the caller throw)
findNearestColor(targetHex, palette) ==
  NearestFrom(hexToRgb(targetHex), palette, 1, Infinity, palette[1])

----------------------------------------------------------------------------
(* localeCompare(..., { numeric: true, sensitivity: 'base' }) on codes *)

Digits == <<"0", "1", "2", "3", "4", "5", "6", "7", "8", "9">>
Letters == <<"A", "B", "C", "D", "E", "F">>

DigitChars == {Digits[i] : i \in DOMAIN Digits}
DigitValues ==
  [ch \in DigitChars |-> (CHOOSE i \in DOMAIN Digits : Digits[i] = ch) - 1]
LetterChars == {Letters[i] : i \in DOMAIN Letters}
LetterRanks ==
  [ch \in LetterChars |-> CHOOSE i \in DOMAIN Letters : Letters[i] = ch]

IsDigit(ch) == ch \in DigitChars
DigitValue(ch) == DigitValues[ch]
\* digits collate before letters
CharRank(ch) == IF IsDigit(ch) THEN DigitValue(ch) ELSE 10 + LetterRanks[ch]

RECURSIVE DigitRunLen(_)
DigitRunLen(s) ==
  IF Len(s) = 0 \/ ~IsDigit(s[1]) THEN 0 ELSE 1 + DigitRunLen(Tail(s))

RECURSIVE DigitsToNumber(_, _)
DigitsToNumber(s, acc) ==
  IF Len(s) = 0 THEN acc
  ELSE DigitsToNumber(Tail(s), 10 * acc + DigitValue(s[1]))

Sign(x) == IF x < 0 THEN -1 ELSE IF x > 0 THEN 1 ELSE 0

RECURSIVE localeCompareNumeric(_, _)
localeCompareNumeric(a, b) ==
  IF Len(a) = 0 /\ Len(b) = 0 THEN 0
  ELSE IF Len(a) = 0 THEN -1
  ELSE IF Len(b) = 0 THEN 1
  ELSE IF IsDigit(a[1]) /\ IsDigit(b[1])
  THEN LET la == DigitRunLen(a)
           lb == DigitRunLen(b)
           va == DigitsToNumber(SubSeq(a, 1, la), 0)
           vb == DigitsToNumber(SubSeq(b, 1, lb), 0)
       IN IF va # vb THEN Sign(va - vb)
          ELSE localeCompareNumeric(SubSeq(a, la + 1, Len(a)),
                                    SubSeq(b, lb + 1, Len(b)))
  ELSE IF CharRank(a[1]) # CharRank(b[1])
  THEN Sign(CharRank(a[1]) - CharRank(b[1]))
  ELSE localeCompareNumeric(Tail(a), Tail(b))

\* a comparison of the codes character by character, digits not read as numbers
RECURSIVE compareCharByChar(_, _)
compareCharByChar(a, b) ==
  IF Len(a) = 0 /\ Len(b) = 0 THEN 0
  ELSE IF Len(a) = 0 THEN -1
  ELSE IF Len(b) = 0 THEN 1
  ELSE IF CharRank(a[1]) # CharRank(b[1])
  THEN Sign(CharRank(a[1]) - CharRank(b[1]))
  ELSE compareCharByChar(Tail(a), Tail(b))

compareByCodeNotNumeric(x, y) ==
  compareCharByChar(x.matchedColor.code, y.matchedColor.code)

\* the comparator of both sorts of App.tsx
compareByCode(x, y) == localeCompareNumeric(x.matchedColor.code, y.matchedColor.code)

\* Array.prototype.sort is stable: insert each element after the last element
\* that does not compare greater
RECURSIVE InsertSorted(_, _)
InsertSorted(sorted, x) ==
  IF Len(sorted) = 0 THEN <<x>>
  ELSE IF compareByCode(sorted[Len(sorted)], x) <= 0 THEN Append(sorted, x)
  ELSE Append(InsertSorted(SubSeq(sorted, 1, Len(sorted) - 1), x),
              sorted[Len(sorted)])

RECURSIVE SortFrom(_, _, _)
SortFrom(list, i, sorted) ==
  IF i > Len(list) THEN sorted
  ELSE SortFrom(list, i + 1, InsertSorted(sorted, list[i]))

sortByCode(list) == SortFrom(list, 1, <<>>)

----------------------------------------------------------------------------
(* The classifier (analyzeArtworkColors) as seen by its caller *)

RedHex == <<"#", "F", "F", "0", "0", "0", "0">>
GreenHex == <<"#", "0", "0", "F", "F", "0", "0">>

Detection(hex, percentage) ==
  [hasHex |-> TRUE, hex |-> hex, percentage |-> percentage]

\* a detection whose hex member is missing
NoHexDetection(percentage) ==
  [hasHex |-> FALSE, hex |-> <<>>, percentage |-> percentage]

ArrayPayload(dets) == [isArray |-> TRUE, dets |-> dets]
\* JSON that is not an array (an object, null)
NotArrayPayload == [isArray |-> FALSE, dets |-> <<>>]

\* what JSON.parse(response.text) may give; a percentage of NaN stands for a
\* detection whose percentage member is missing or not a number
Payloads ==
  { ArrayPayload(<<Detection(RedHex, 50), Detection(GreenHex, 50)>>),
    ArrayPayload(<<Detection(RedHex, NaN)>>),
    ArrayPayload(<<Detection(RedHex, 50), NoHexDetection(50)>>),
    NotArrayPayload }

----------------------------------------------------------------------------
(* EstimationState *)

NewItem == [width |-> 20, height |-> 25, image |-> NoImage]

createInitialWorkspaceState ==
  [items |-> <<NewItem>>,
   brand |-> MOLOTOW,
   line |-> MOLOTOW_PREMIUM,
   results |-> NULL,
   totalArea |-> 0,
   loading |-> FALSE,
   error |-> NoError]

\* no function of the module is being applied on its own
NoCall == [fn |-> "none"]

Init ==
  /\ state = createInitialWorkspaceState
  /\ savedProjects = <<>>
  /\ runs = <<>>
  /\ call = NoCall

RemoveAt(seq, i) == SubSeq(seq, 1, i - 1) \o SubSeq(seq, i + 1, Len(seq))

----------------------------------------------------------------------------
(* Saved projects *)

\* JSON.stringify writes NaN as null
JsonNumber(x) == IF IsNaN(x) THEN JsNull ELSE x

JsonResult(r) ==
  [r EXCEPT !.percentage = JsonNumber(@), !.cansRequired = JsonNumber(@)]

\* JSON.parse(JSON.stringify(state))
JsonCopy(s) ==
  IF s.results = NULL THEN s
  ELSE [s EXCEPT !.results =
          Some([i \in DOMAIN s.results[1] |-> JsonResult(s.results[1][i])])]

saveProject ==
  /\ state.results # NULL
  /\ Len(savedProjects) < MaxSaved
  /\ savedProjects' = <<[state |-> JsonCopy(state)]>> \o savedProjects
  /\ UNCHANGED <<state, runs, call>>

loadProject(p) ==
  /\ p \in DOMAIN savedProjects
  /\ state' = savedProjects[p].state
  /\ UNCHANGED <<savedProjects, runs, call>>

deleteProject(p) ==
  /\ p \in DOMAIN savedProjects
  /\ savedProjects' = RemoveAt(savedProjects, p)
  /\ UNCHANGED <<state, runs, call>>

----------------------------------------------------------------------------
(* Surfaces *)

addItem ==
  /\ Len(state.items) < MaxItems
  /\ state' = [state EXCEPT !.items = Append(@, NewItem)]
  /\ UNCHANGED <<savedProjects, runs, call>>

\* removeItem without its first line
removeItemUnguarded(i) ==
  /\ i \in DOMAIN state.items
  /\ state' = [state EXCEPT !.items = RemoveAt(@, i)]
  /\ UNCHANGED <<savedProjects, runs, call>>

\* ids are fresh UUIDs, so filter(item => item.id !== id) drops one position
removeItem(i) ==
  /\ i \in DOMAIN state.items
  /\ IF Len(state.items) <= 1
     THEN UNCHANGED state
     ELSE state' = [state EXCEPT !.items = RemoveAt(@, i)]
  /\ UNCHANGED <<savedProjects, runs, call>>

Widths == {0, 20}
Images == {"data:image"}

\* updateItem(id, { width })
updateItemWidth(i, w) ==
  /\ i \in DOMAIN state.items
  /\ state' = [state EXCEPT !.items[i].width = w]
  /\ UNCHANGED <<savedProjects, runs, call>>

\* updateItem(id, { image }), from handleImageUpload
updateItemImage(i, img) ==
  /\ i \in DOMAIN state.items
  /\ state' = [state EXCEPT !.items[i].image = img]
  /\ UNCHANGED <<savedProjects, runs, call>>

----------------------------------------------------------------------------
(* Brand and line *)

\* a brand change that empties the list instead of dropping it
handleBrandChangeEmptyList(brand) ==
  /\ brand # state.brand
  /\ state' = [state EXCEPT !.brand = brand,
                            !.line = BRAND_LINES[brand][1],
                            !.results = Some(<<>>)]
  /\ UNCHANGED <<savedProjects, runs, call>>

\* the change event of the brand select
handleBrandChange(brand) ==
  /\ brand # state.brand
  /\ state' = [state EXCEPT !.brand = brand,
                            !.line = BRAND_LINES[brand][1],
                            !.results = NULL]
  /\ UNCHANGED <<savedProjects, runs, call>>

\* the onChange of the series select; its options are BRAND_LINES[state.brand]
lineSelectOnChange(line) ==
  /\ \E k \in DOMAIN BRAND_LINES[state.brand] : BRAND_LINES[state.brand][k] = line
  /\ line # state.line
  /\ state' = [state EXCEPT !.line = line]
  /\ UNCHANGED <<savedProjects, runs, call>>

currentBrandPalette == PaletteOf(state.brand, state.line)

----------------------------------------------------------------------------
(* calculateEstimation *)

IsValidItem(item) == item.image # NoImage /\ item.width > 0 /\ item.height > 0

validItemsOf(s) == SelectSeq(s.items, IsValidItem)

ItemArea(item) == item.width * item.height

\* a handler that sets loading before it looks at the surfaces
calculateEstimationRejectedLate ==
  /\ ~state.loading
  /\ validItemsOf(state) = <<>>
  /\ state' = [state EXCEPT !.loading = TRUE, !.error = NoError]
  /\ UNCHANGED <<savedProjects, runs, call>>

\* the alert: nothing is set
calculateEstimationRejected ==
  /\ ~state.loading
  /\ validItemsOf(state) = <<>>
  /\ UNCHANGED vars

\* a call up to its first await.  validItems and brandPalette are taken from
\* the state the handler was rendered with; the button is disabled while
\* state.loading
calculateEstimation ==
  /\ ~state.loading
  /\ Len(runs) < MaxRuns
  /\ validItemsOf(state) # <<>>
  /\ state' = [state EXCEPT !.loading = TRUE, !.error = NoError]
  /\ runs' = Append(runs,
       [validItems |-> validItemsOf(state),
        brand |-> state.brand,
        line |-> state.line,
        k |-> 1,
        mergedMap |-> <<>>,
        totalProjectArea |-> ItemArea(validItemsOf(state)[1])])
  /\ UNCHANGED <<savedProjects, call>>

MergeKey(c) == <<c.brand, c.line, c.code>>

KeyIndex(mergedMap, key) ==
  IF \E j \in DOMAIN mergedMap : MergeKey(mergedMap[j].matchedColor) = key
  THEN CHOOSE j \in DOMAIN mergedMap : MergeKey(mergedMap[j].matchedColor) = key
  ELSE 0

\* the body of rawColors.forEach
mergeColorData(mergedMap, colorData, brandPalette, itemArea) ==
  LET matched == findNearestColor(colorData.hex, brandPalette)
      colorAreaContribution == Mul(colorData.percentage, itemArea)
      j == KeyIndex(mergedMap, MergeKey(matched))
  IN IF j > 0
     THEN [mergedMap EXCEPT
             ![j].totalAreaCovered = Add(@, colorAreaContribution)]
     ELSE Append(mergedMap,
                 [matchedColor |-> matched,
                  totalAreaCovered |-> colorAreaContribution,
                  totalPercentage |-> 0])

RECURSIVE forEachColor(_, _, _, _, _)
forEachColor(mergedMap, dets, n, brandPalette, itemArea) ==
  IF n > Len(dets) THEN mergedMap
  ELSE forEachColor(mergeColorData(mergedMap, dets[n], brandPalette, itemArea),
                    dets, n + 1, brandPalette, itemArea)

\* what makes the try block throw once the classifier has answered:
\* rawColors.forEach is no function, colorData.hex.slice of undefined,
\* matched.brand of undefined (an empty palette)
PayloadThrows(payload, brandPalette) ==
  \/ ~payload.isArray
  \/ \E n \in DOMAIN payload.dets : ~payload.dets[n].hasHex
  \/ payload.dets # <<>> /\ brandPalette = <<>>

\* one element of Array.from(mergedMap.values()).map(...)
toAnalysisResult(data, totalProjectArea) ==
  [colorName |-> data.matchedColor.name,
   hex |-> data.matchedColor.hex,
   percentage |-> RoundDiv(Mul(data.totalAreaCovered, 100), totalProjectArea),
   matchedColor |-> data.matchedColor,
   cansRequired |-> MathMax(1, CeilDiv(data.totalAreaCovered, CanCoverageUnits))]

analysisResultsOf(mergedMap, totalProjectArea) ==
  sortByCode([j \in DOMAIN mergedMap |->
                toAnalysisResult(mergedMap[j], totalProjectArea)])

\* a catch block that shows what the run has merged so far
catchBlockPartial(i) ==
  /\ state' = [state EXCEPT
                 !.results = Some(analysisResultsOf(runs[i].mergedMap,
                                                    runs[i].totalProjectArea)),
                 !.loading = FALSE,
                 !.error = AnalysisFailed]
  /\ runs' = RemoveAt(runs, i)
  /\ UNCHANGED <<savedProjects, call>>

\* the catch block
catchBlock(i) ==
  /\ state' = [state EXCEPT !.loading = FALSE, !.error = AnalysisFailed]
  /\ runs' = RemoveAt(runs, i)
  /\ UNCHANGED <<savedProjects, call>>

\* a final setState that adds to the list instead of replacing it
installResultsMerged(i, mergedMap, totalProjectArea) ==
  /\ state' = [state EXCEPT
                 !.results =
                    Some(sortByCode(
                      (IF state.results = NULL THEN <<>> ELSE state.results[1])
                      \o analysisResultsOf(mergedMap, totalProjectArea))),
                 !.totalArea = totalProjectArea,
                 !.loading = FALSE]
  /\ runs' = RemoveAt(runs, i)
  /\ UNCHANGED <<savedProjects, call>>

\* the area of the first n surfaces of a list
RECURSIVE AreaOfFirst(_, _)
AreaOfFirst(items, n) ==
  IF n = 0 THEN 0 ELSE AreaOfFirst(items, n - 1) + ItemArea(items[n])

\* a final setState that takes the total from the surfaces of the moment
installResultsOfCurrentItems(i, mergedMap, totalProjectArea) ==
  /\ state' = [state EXCEPT
                 !.results = Some(analysisResultsOf(mergedMap, totalProjectArea)),
                 !.totalArea =
                    AreaOfFirst(validItemsOf(state), Len(validItemsOf(state))),
                 !.loading = FALSE]
  /\ runs' = RemoveAt(runs, i)
  /\ UNCHANGED <<savedProjects, call>>

\* the final setState of the try block
installResults(i, mergedMap, totalProjectArea) ==
  /\ state' = [state EXCEPT
                 !.results = Some(analysisResultsOf(mergedMap, totalProjectArea)),
                 !.totalArea = totalProjectArea,
                 !.loading = FALSE]
  /\ runs' = RemoveAt(runs, i)
  /\ UNCHANGED <<savedProjects, call>>

\* the loop goes on to the next surface and awaits its classification
nextSurface(i, mergedMap) ==
  /\ runs' = [runs EXCEPT
                ![i].k = @ + 1,
                ![i].mergedMap = mergedMap,
                ![i].totalProjectArea =
                   @ + ItemArea(runs[i].validItems[runs[i].k + 1])]
  /\ UNCHANGED <<state, savedProjects, call>>

\* the awaited analyzeArtworkColors of run i rejects (network, quota, JSON.parse)
classifierRejects(i) ==
  /\ i \in DOMAIN runs
  /\ catchBlock(i)

\* the awaited analyzeArtworkColors of run i resolves with payload: the run
\* goes on to its next await or to its end
classifierResolves(i, payload) ==
  /\ i \in DOMAIN runs
  /\ LET run == runs[i]
         brandPalette == PaletteOf(run.brand, run.line)
         merged == forEachColor(run.mergedMap, payload.dets, 1, brandPalette,
                                ItemArea(run.validItems[run.k]))
     IN IF PayloadThrows(payload, brandPalette) THEN catchBlock(i)
        ELSE IF run.k < Len(run.validItems) THEN nextSurface(i, merged)
        ELSE installResults(i, merged, run.totalProjectArea)

----------------------------------------------------------------------------
(* The result list *)

\* item.cansRequired + delta without Math.max(0, ...)
adjustedCansNoFloor(cansRequired, delta) == Add(cansRequired, delta)

\* Math.max(0, item.cansRequired + delta)
adjustedCans(cansRequired, delta) == MathMax(0, Add(cansRequired, delta))

\* an adjustCans that drops the item it has brought to 0
adjustCansRemovingAtZero(index, delta) ==
  /\ state.results # NULL
  /\ index \in DOMAIN state.results[1]
  /\ Lt(adjustedCans(state.results[1][index].cansRequired, delta), MaxCans + 1)
       \/ IsNaN(state.results[1][index].cansRequired)
  /\ state' = [state EXCEPT !.results[1] =
                 IF adjustedCans(@[index].cansRequired, delta) = 0
                 THEN RemoveAt(@, index)
                 ELSE [@ EXCEPT ![index].cansRequired = adjustedCans(@, delta)]]
  /\ UNCHANGED <<savedProjects, runs, call>>

adjustCans(index, delta) ==
  /\ state.results # NULL
  /\ index \in DOMAIN state.results[1]
  /\ Lt(adjustedCans(state.results[1][index].cansRequired, delta), MaxCans + 1)
       \/ IsNaN(state.results[1][index].cansRequired)
  /\ state' = [state EXCEPT !.results[1][index].cansRequired =
                 adjustedCans(@, delta)]
  /\ UNCHANGED <<savedProjects, runs, call>>

\* a removeResult that drops the last item of the list, whatever the index
removeResultLast(index) ==
  /\ state.results # NULL
  /\ index \in DOMAIN state.results[1]
  /\ state' = [state EXCEPT !.results[1] = SubSeq(@, 1, Len(@) - 1)]
  /\ UNCHANGED <<savedProjects, runs, call>>

removeResult(index) ==
  /\ state.results # NULL
  /\ index \in DOMAIN state.results[1]
  /\ state' = [state EXCEPT !.results[1] = RemoveAt(@, index)]
  /\ UNCHANGED <<savedProjects, runs, call>>

\* currentResults.findIndex(r => r.matchedColor?.code === color.code) + 1
findIndexByCode(currentResults, color) ==
  IF \E j \in DOMAIN currentResults : currentResults[j].matchedColor.code = color.code
  THEN CHOOSE j \in DOMAIN currentResults :
         /\ currentResults[j].matchedColor.code = color.code
         /\ \A h \in 1..(j - 1) : currentResults[h].matchedColor.code # color.code
  ELSE 0

manualResult(color) ==
  [colorName |-> color.name,
   hex |-> color.hex,
   percentage |-> 0,
   matchedColor |-> color,
   cansRequired |-> 1]

\* an addManualColor that inserts a new item without looking the color up
withManualColorAlwaysInserts(currentResults, color) ==
  sortByCode(Append(currentResults, manualResult(color)))

\* the list addManualColor returns
withManualColor(currentResults, color) ==
  LET existingIndex == findIndexByCode(currentResults, color)
  IN IF existingIndex > 0
     THEN [currentResults EXCEPT ![existingIndex].cansRequired = Add(@, 1)]
     ELSE sortByCode(Append(currentResults, manualResult(color)))

addManualColor(c) ==
  /\ c \in DOMAIN currentBrandPalette
  /\ LET color == currentBrandPalette[c]
         currentResults == IF state.results = NULL THEN <<>> ELSE state.results[1]
         updated == withManualColor(currentResults, color)
     IN /\ \A j \in DOMAIN updated : ~Lt(MaxCans, updated[j].cansRequired)
        /\ state' = [state EXCEPT !.results = Some(updated)]
  /\ UNCHANGED <<savedProjects, runs, call>>

----------------------------------------------------------------------------

(* The workspace without the project library: every handler but            *)
(* saveProject, loadProject and deleteProject.                             *)
Next ==
  \/ addItem
  \/ \E i \in 1..MaxItems : removeItem(i)
  \/ \E i \in 1..MaxItems, w \in Widths : updateItemWidth(i, w)
  \/ \E i \in 1..MaxItems, img \in Images : updateItemImage(i, img)
  \/ \E brand \in SprayBrand : handleBrandChange(brand)
  \/ \E line \in SprayLine : lineSelectOnChange(line)
  \/ calculateEstimationRejected
  \/ calculateEstimation
  \/ \E i \in 1..MaxRuns : classifierRejects(i)
  \/ \E i \in 1..MaxRuns, payload \in Payloads : classifierResolves(i, payload)
  \/ \E index \in 1..Len(BRAND_COLORS), delta \in {-1, 1} : adjustCans(index, delta)
  \/ \E index \in 1..Len(BRAND_COLORS) : removeResult(index)
  \/ \E c \in 1..Len(BRAND_COLORS) : addManualColor(c)

Spec == Init /\ [][Next]_vars

(* The project library with the result list and the aggregation runs: one  *)
(* surface, the initial brand and line.                                    *)
SavedPayloads ==
  { ArrayPayload(<<Detection(RedHex, 50), Detection(GreenHex, 50)>>),
    ArrayPayload(<<Detection(RedHex, NaN)>>),
    NotArrayPayload }

NextSaved ==
  \/ saveProject
  \/ \E p \in 1..MaxSaved : loadProject(p)
  \/ \E p \in 1..MaxSaved : deleteProject(p)
  \/ \E img \in Images : updateItemImage(1, img)
  \/ calculateEstimationRejected
  \/ calculateEstimation
  \/ \E i \in 1..MaxRuns : classifierRejects(i)
  \/ \E i \in 1..MaxRuns, payload \in SavedPayloads : classifierResolves(i, payload)
  \/ \E index \in 1..Len(BRAND_COLORS), delta \in {-1, 1} : adjustCans(index, delta)
  \/ \E index \in 1..Len(BRAND_COLORS) : removeResult(index)
  \/ \E c \in 1..Len(BRAND_COLORS) : addManualColor(c)

SpecSaved == Init /\ [][NextSaved]_vars

(* The project library with the surfaces; addManualColor is what makes a   *)
(* state that saveProject accepts.                                         *)
NextSurfaces ==
  \/ saveProject
  \/ \E p \in 1..MaxSaved : loadProject(p)
  \/ \E p \in 1..MaxSaved : deleteProject(p)
  \/ addItem
  \/ \E i \in 1..MaxItems : removeItem(i)
  \/ \E i \in 1..MaxItems, w \in Widths : updateItemWidth(i, w)
  \/ \E i \in 1..MaxItems, img \in Images : updateItemImage(i, img)
  \/ \E c \in 1..Len(BRAND_COLORS) : addManualColor(c)

SpecSurfaces == Init /\ [][NextSurfaces]_vars

----------------------------------------------------------------------------
(* findNearestColor on its own: call holds the arguments, then the colour  *)
(* returned.                                                               *)

MaxPalette == 3

ChannelPairs == {<<"0", "0">>, <<"8", "0">>, <<"F", "F">>}

\* "#RRGGBB"
TargetHexes ==
  {<<"#">> \o r \o g \o b :
     r \in ChannelPairs, g \in ChannelPairs, b \in {<<"0", "0">>, <<"F", "F">>}}

\* candidate colours; the second and the third have one hex
CandidateColors ==
  { [brand |-> MOLOTOW, line |-> MOLOTOW_PREMIUM, name |-> "Black",
     code |-> <<"C", "1">>, hex |-> <<"#", "0", "0", "0", "0", "0", "0">>],
    [brand |-> MOLOTOW, line |-> MOLOTOW_PREMIUM, name |-> "Traffic Red",
     code |-> <<"C", "2">>, hex |-> <<"#", "F", "F", "0", "0", "0", "0">>],
    [brand |-> MOLOTOW, line |-> MOLOTOW_PREMIUM, name |-> "Fire Red",
     code |-> <<"C", "3">>, hex |-> <<"#", "F", "F", "0", "0", "0", "0">>],
    [brand |-> MOLOTOW, line |-> MOLOTOW_PREMIUM, name |-> "Signal Green",
     code |-> <<"C", "1", "0">>, hex |-> <<"#", "0", "0", "F", "F", "0", "0">>] }

\* the non-empty sequences of distinct candidates, up to MaxPalette long
CandidatePalettes ==
  UNION {{p \in [1..n -> CandidateColors] :
            \A j \in 1..n : \A h \in 1..n : j # h => p[j] # p[h]} :
         n \in 1..MaxPalette}

InitNearest ==
  /\ state = createInitialWorkspaceState
  /\ savedProjects = <<>>
  /\ runs = <<>>
  /\ \E targetHex \in TargetHexes, palette \in CandidatePalettes :
       call = [fn |-> "findNearestColor", targetHex |-> targetHex,
               palette |-> palette, returned |-> NULL]

callFindNearestColor ==
  /\ call.fn = "findNearestColor"
  /\ call.returned = NULL
  /\ call' = [call EXCEPT
                !.returned = Some(findNearestColor(call.targetHex, call.palette))]
  /\ UNCHANGED <<state, savedProjects, runs>>

NextNearest == callFindNearestColor

SpecNearest == InitNearest /\ [][NextNearest]_vars

----------------------------------------------------------------------------
(* An aggregation run on its own, from the click to the final setState, in *)
(* the arithmetic of JavaScript, and the same run on the surfaces and      *)
(* detections in another order.  Widths and heights are whole metres here, *)
(* percentages whole numbers.  call holds the surfaces, what the           *)
(* classifier answers for each image, the reordered surfaces and answers,  *)
(* then what both runs return.                                             *)

MaxSurfaces == 2

ImageA == "data:image/a"
ImageB == "data:image/b"
ImageC == "data:image/c"
SurfaceImages == {ImageA, ImageB, ImageC}

\* what analyzeArtworkColors resolves with for each image
classifierOutput ==
  [img \in SurfaceImages |->
     IF img = ImageA THEN <<Detection(RedHex, 50), Detection(GreenHex, 50)>>
     ELSE IF img = ImageB THEN <<Detection(RedHex, 100)>>
     ELSE <<Detection(RedHex, 1), Detection(RedHex, 46), Detection(RedHex, 53)>>]

\* surfaces of 2 m x 2 m, 1 m x 4 m, 1 m x 5 m and of width 0, with or
\* without an image
SurfaceChoices ==
  {[width |-> sz[1], height |-> sz[2], image |-> img] :
     sz \in {<<2, 2>>, <<1, 4>>, <<1, 5>>, <<0, 2>>},
     img \in SurfaceImages \cup {NoImage}}

SurfaceLists == UNION {[1..n -> SurfaceChoices] : n \in 1..MaxSurfaces}

PermutationsOf(n) ==
  {f \in [1..n -> 1..n] : \A j \in 1..n : \A h \in 1..n : j # h => f[j] # f[h]}

Reordered(seq, f) == [j \in DOMAIN seq |-> seq[f[j]]]

\* the answers of the classifier with the detections of each in any order
ReorderedOutputs ==
  {out \in [SurfaceImages ->
              UNION {{Reordered(classifierOutput[img], f) :
                        f \in PermutationsOf(Len(classifierOutput[img]))} :
                     img \in SurfaceImages}] :
     \A img \in SurfaceImages :
       \E f \in PermutationsOf(Len(classifierOutput[img])) :
         out[img] = Reordered(classifierOutput[img], f)}

\* item.width * item.height
itemAreaOf(item) == DoubleMul(DoubleOf(item.width), DoubleOf(item.height))

\* a merge that keeps the last contribution of a colour instead of the sum
mergeColorDataLastOnly(mergedMap, colorData, brandPalette, itemArea) ==
  LET matched == findNearestColor(colorData.hex, brandPalette)
      colorAreaContribution ==
        DoubleMul(DoubleDiv(DoubleOf(colorData.percentage), DoubleOf(100)), itemArea)
      j == KeyIndex(mergedMap, MergeKey(matched))
  IN IF j > 0
     THEN [mergedMap EXCEPT ![j].totalAreaCovered = colorAreaContribution]
     ELSE Append(mergedMap,
                 [matchedColor |-> matched,
                  totalAreaCovered |-> colorAreaContribution,
                  totalPercentage |-> 0])

\* the body of rawColors.forEach
mergeColorDataDouble(mergedMap, colorData, brandPalette, itemArea) ==
  LET matched == findNearestColor(colorData.hex, brandPalette)
      colorAreaContribution ==
        DoubleMul(DoubleDiv(DoubleOf(colorData.percentage), DoubleOf(100)), itemArea)
      j == KeyIndex(mergedMap, MergeKey(matched))
  IN IF j > 0
     THEN [mergedMap EXCEPT
             ![j].totalAreaCovered = DoubleAdd(@, colorAreaContribution)]
     ELSE Append(mergedMap,
                 [matchedColor |-> matched,
                  totalAreaCovered |-> colorAreaContribution,
                  totalPercentage |-> 0])

RECURSIVE forEachColorDouble(_, _, _, _, _)
forEachColorDouble(mergedMap, dets, n, brandPalette, itemArea) ==
  IF n > Len(dets) THEN mergedMap
  ELSE forEachColorDouble(
         mergeColorDataDouble(mergedMap, dets[n], brandPalette, itemArea),
         dets, n + 1, brandPalette, itemArea)

\* one element of Array.from(mergedMap.values()).map(...)
toAnalysisResultDouble(data, totalProjectArea) ==
  LET cans == MathCeil(DoubleDiv(data.totalAreaCovered, DoubleOf(CAN_COVERAGE)))
      percentageOfWhole ==
        DoubleMul(DoubleDiv(data.totalAreaCovered, totalProjectArea), DoubleOf(100))
  IN [colorName |-> data.matchedColor.name,
      hex |-> data.matchedColor.hex,
      percentage |->
        DoubleDiv(DoubleOf(MathRound(DoubleMul(percentageOfWhole, DoubleOf(100)))),
                  DoubleOf(100)),
      matchedColor |-> data.matchedColor,
      cansRequired |-> IF cans < 1 THEN 1 ELSE cans]

\* the loop over validItems, from surface k on, and what follows it
RECURSIVE forEachValidItem(_, _, _, _, _, _)
forEachValidItem(validItems, k, rawColorsOf, brandPalette, mergedMap, totalProjectArea) ==
  IF k > Len(validItems)
  THEN [mergedMap |-> mergedMap,
        totalArea |-> totalProjectArea,
        results |-> sortByCode([j \in DOMAIN mergedMap |->
                      toAnalysisResultDouble(mergedMap[j], totalProjectArea)])]
  ELSE forEachValidItem(validItems, k + 1, rawColorsOf, brandPalette,
         forEachColorDouble(mergedMap, rawColorsOf[validItems[k].image], 1,
                            brandPalette, itemAreaOf(validItems[k])),
         DoubleAdd(totalProjectArea, itemAreaOf(validItems[k])))

\* a whole run that succeeds; s has a valid item
runToCompletion(s, rawColorsOf) ==
  forEachValidItem(validItemsOf(s), 1, rawColorsOf,
                   PaletteOf(s.brand, s.line), <<>>, DoubleZero)

InitAggregate ==
  /\ state = createInitialWorkspaceState
  /\ savedProjects = <<>>
  /\ runs = <<>>
  /\ \E items \in SurfaceLists, rawColorsOf \in ReorderedOutputs :
       \E f \in PermutationsOf(Len(items)) :
         /\ \E j \in DOMAIN items : IsValidItem(items[j])
         /\ call = [fn |-> "calculateEstimation",
                    items |-> items,
                    rawColorsOf |-> classifierOutput,
                    reorderedItems |-> Reordered(items, f),
                    reorderedRawColorsOf |-> rawColorsOf,
                    returned |-> NULL]

callCalculateEstimation ==
  /\ call.fn = "calculateEstimation"
  /\ call.returned = NULL
  /\ call' = [call EXCEPT !.returned = Some(
       [run |-> runToCompletion([state EXCEPT !.items = call.items],
                                call.rawColorsOf),
        reorderedRun |->
          runToCompletion([state EXCEPT !.items = call.reorderedItems],
                          call.reorderedRawColorsOf)])]
  /\ UNCHANGED <<state, savedProjects, runs>>

NextAggregate == callCalculateEstimation

SpecAggregate == InitAggregate /\ [][NextAggregate]_vars

----------------------------------------------------------------------------
(* Properties *)

ResultList == IF state.results = NULL THEN <<>> ELSE state.results[1]
ResultListNext == IF state'.results = NULL THEN <<>> ELSE state'.results[1]

\* run i ends in the catch block: its classifier call rejects, or resolves
\* with a payload that makes the try block throw
RunFails(i) ==
  /\ runs' # runs
  /\ \/ classifierRejects(i)
     \/ \E payload \in Payloads :
          /\ PayloadThrows(payload, PaletteOf(runs[i].brand, runs[i].line))
          /\ classifierResolves(i, payload)

\* C1: when the classifier call of a run fails, results and totalArea are
\* after the step what they were before it (nothing of the run's merge map
\* is shown), loading is false and error is set.
C1_FailedRunLeavesResults ==
  [][\A i \in DOMAIN runs :
       RunFails(i) =>
         /\ state'.results = state.results
         /\ state'.totalArea = state.totalArea
         /\ state'.loading = FALSE
         /\ state'.error = AnalysisFailed]_vars

\* a run has failed while a result list of two colours was on display
C1_Witness ==
  /\ state.error = AnalysisFailed
  /\ ~state.loading
  /\ runs = <<>>
  /\ Len(ResultList) = 2

\* C2: every colour that a step puts into results belongs to the palette of
\* the brand and line selected at that moment.
C2_NewItemsInSelectedPalette ==
  [][\A j \in DOMAIN ResultListNext :
       (\A h \in DOMAIN ResultList :
          ResultList[h].matchedColor # ResultListNext[j].matchedColor)
       => InPalette(state'.brand, state'.line, ResultListNext[j].matchedColor)]_vars

\* C3: a step that changes the brand or the line while results exist leaves
\* results absent.
C3_SwitchClearsResults ==
  [][(state.results # NULL
      /\ (state'.brand # state.brand \/ state'.line # state.line))
     => state'.results = NULL]_vars

\* the number a code ends with, and the order of the codes of the catalog:
\* by their letter, then by that number
CodeNumber(code) == DigitsToNumber(Tail(code), 0)
CodeBefore(a, b) ==
  \/ CharRank(a[1]) < CharRank(b[1])
  \/ a[1] = b[1] /\ CodeNumber(a) <= CodeNumber(b)

\* C4: whenever results is present, its codes ascend in natural-number order
\* ("C2" before "C10").
C4_ResultsInCodeOrder ==
  \A j \in DOMAIN ResultList : \A h \in DOMAIN ResultList :
    j < h => CodeBefore(ResultList[j].matchedColor.code,
                        ResultList[h].matchedColor.code)

\* a loaded or saved project whose list holds C2 and then C10
C4_Witness ==
  /\ Len(ResultList) = 2
  /\ ResultList[1].matchedColor.code = <<"C", "2">>
  /\ ResultList[2].matchedColor.code = <<"C", "1", "0">>
  /\ savedProjects # <<>>
  /\ savedProjects[1].state.results = state.results

\* cansRequired >= n of JavaScript
AtLeast(x, n) == ~IsNaN(x) /\ ToNumber(x) >= n

ComputedResults(i, payload) ==
  analysisResultsOf(
    forEachColor(runs[i].mergedMap, payload.dets, 1,
                 PaletteOf(runs[i].brand, runs[i].line),
                 ItemArea(runs[i].validItems[runs[i].k])),
    runs[i].totalProjectArea)

\* run i succeeds: the classifier call of its last surface resolves and the
\* try block does not throw
RunSucceeds(i, payload) ==
  /\ runs' # runs
  /\ runs[i].k = Len(runs[i].validItems)
  /\ ~PayloadThrows(payload, PaletteOf(runs[i].brand, runs[i].line))
  /\ classifierResolves(i, payload)

\* C6: when a run succeeds, results is exactly the list that run computed,
\* whatever results held before.
C6_SuccessReplacesResults ==
  [][\A i \in DOMAIN runs : \A payload \in Payloads :
       RunSucceeds(i, payload)
       => state'.results = Some(ComputedResults(i, payload))]_vars

\* a run has succeeded and the list is the two colours it found, none of them
\* added by hand
C6_Witness ==
  /\ state.totalArea > 0
  /\ ~state.loading
  /\ state.error = NoError
  /\ Len(ResultList) = 2
  /\ \A j \in DOMAIN ResultList : ResultList[j].percentage = 5000

\* C7 as stated: results is absent as long as no run has succeeded (only a
\* successful run sets totalArea, to the area of its surfaces, which is
\* positive).
C7_NoResultsBeforeFirstRun ==
  state.totalArea = 0 => state.results = NULL

\* C7 as amended: results goes from absent to present only when a run
\* succeeds, when addManualColor adds a colour or when a saved project is
\* loaded; no other handler makes it present.
C7_ResultsAppearOnlyBy ==
  [][(state.results = NULL /\ state'.results # NULL)
     => \/ \E i \in DOMAIN runs : \E payload \in Payloads : RunSucceeds(i, payload)
        \/ \E c \in DOMAIN currentBrandPalette : addManualColor(c)
        \/ \E p \in DOMAIN savedProjects : loadProject(p)]_vars

\* a list that exists before any run has succeeded: addManualColor made it
C7_Witness ==
  /\ state.totalArea = 0
  /\ state.results # NULL
  /\ Len(ResultList) = 1
  /\ ResultList[1].percentage = 0

\* C8: at most one classifier request is in flight.
C8_OneRequestInFlight == Len(runs) <= 1

\* a payload that is not a sequence of detections with a hex colour and a
\* numeric percentage each
InvalidPayload(payload) ==
  \/ ~payload.isArray
  \/ \E n \in DOMAIN payload.dets :
       ~payload.dets[n].hasHex \/ IsNaN(payload.dets[n].percentage)

\* C9: when the classifier resolves with an invalid payload the run ends as a
\* failure and results is left as it was.
C9_InvalidPayloadAborts ==
  [][\A i \in DOMAIN runs : \A payload \in Payloads :
       (runs' # runs /\ InvalidPayload(payload) /\ classifierResolves(i, payload))
       => /\ Len(runs') < Len(runs)
          /\ state'.error = AnalysisFailed
          /\ state'.results = state.results]_vars

\* C10: there is at least one surface.
C10_AtLeastOneSurface == Len(state.items) >= 1

\* one surface is left, of a workspace that had two when it was saved
C10_Witness ==
  /\ Len(state.items) = 1
  /\ savedProjects # <<>>
  /\ Len(savedProjects[1].state.items) = 2

\* the positions of the list that hold the colour with the identity
\* (brand, line, code) of color
SameIdentity(list, color) ==
  {j \in DOMAIN list : MergeKey(list[j].matchedColor) = MergeKey(color)}

\* next is list with the cansRequired of position j grown by 1
GrownByOneAt(list, next, j) ==
  /\ Len(next) = Len(list)
  /\ next[j] = [list[j] EXCEPT !.cansRequired = Add(@, 1)]
  /\ \A h \in DOMAIN list : h # j => next[h] = list[h]

\* next is list with one more element, item, the others kept as they were
InsertedOne(list, next, item) ==
  \E p \in DOMAIN next : next[p] = item /\ RemoveAt(next, p) = list

CodeOrdered(list) ==
  \A j \in DOMAIN list : \A h \in DOMAIN list :
    j < h => CodeBefore(list[j].matchedColor.code, list[h].matchedColor.code)

\* C11: addManualColor of a colour whose identity (brand, line, code) is in
\* the list grows that item by one can and changes nothing else; of a colour
\* whose identity is not in the list it inserts one item of 0 % and 1 can,
\* keeps the others and leaves the list in code order.
C11_AddManualColorByIdentity ==
  [][\A c \in DOMAIN currentBrandPalette :
       (state'.results # state.results /\ addManualColor(c))
       => LET color == currentBrandPalette[c]
              same == SameIdentity(ResultList, color)
          IN IF same # {}
             THEN \E j \in same : GrownByOneAt(ResultList, ResultListNext, j)
             ELSE /\ InsertedOne(ResultList, ResultListNext, manualResult(color))
                  /\ CodeOrdered(ResultListNext)]_vars

\* C12: adjustCans(index, delta) leaves at index the larger of 0 and
\* cansRequired + delta (a cansRequired that is not a number stays no number
\* below 0), keeps that item in the list even at 0, and changes no other
\* item, nor the length or the order of the list.
C12_AdjustFloorsAtZero ==
  [][\A index \in DOMAIN ResultList : \A delta \in {-1, 1} :
       adjustCans(index, delta)
       => LET before == ResultList[index].cansRequired
              after == ResultListNext[index].cansRequired
          IN /\ Len(ResultListNext) = Len(ResultList)
             /\ \A h \in DOMAIN ResultList :
                  h # index => ResultListNext[h] = ResultList[h]
             /\ ResultListNext[index] =
                  [ResultList[index] EXCEPT !.cansRequired = after]
             /\ ~Lt(after, 0)
             /\ ~IsNaN(before) =>
                  after = (IF ToNumber(before) + delta < 0 THEN 0
                           ELSE ToNumber(before) + delta)]_vars

\* of the two colours a run has found, the first has been brought to 0 cans
\* and is still listed before the second
C12_Witness ==
  /\ Len(ResultList) = 2
  /\ ResultList[1].cansRequired = 0
  /\ ResultList[1].percentage = 5000
  /\ ResultList[2].cansRequired = 1

\* C13: removeResult(index) makes the list one shorter: the items before
\* index stay where they were, the items after it move up by one, each
\* unchanged; items, brand, line and totalArea are unchanged.
C13_RemoveResultFrame ==
  [][\A index \in DOMAIN ResultList :
       removeResult(index)
       => /\ state'.results # NULL
          /\ Len(ResultListNext) = Len(ResultList) - 1
          /\ \A h \in 1..(index - 1) : ResultListNext[h] = ResultList[h]
          /\ \A h \in index..(Len(ResultList) - 1) :
               ResultListNext[h] = ResultList[h + 1]
          /\ state'.items = state.items
          /\ state'.brand = state.brand
          /\ state'.line = state.line
          /\ state'.totalArea = state.totalArea]_vars

\* of the two colours a run has found, C2 and C10, the first has been removed
C13_Witness ==
  /\ Len(ResultList) = 1
  /\ ResultList[1].matchedColor.code = <<"C", "1", "0">>
  /\ ResultList[1].percentage = 5000
  /\ state.totalArea > 0

\* the value of the channel written at positions k and k + 1 of "#RRGGBB"
Channel(hex, k) == 16 * HexValue(hex[k]) + HexValue(hex[k + 1])

\* 100 * the weighted squared distance, weights 0.30, 0.59 and 0.11
WeightedSquared(a, b) ==
  30 * (Channel(a, 2) - Channel(b, 2)) * (Channel(a, 2) - Channel(b, 2))
  + 59 * (Channel(a, 4) - Channel(b, 4)) * (Channel(a, 4) - Channel(b, 4))
  + 11 * (Channel(a, 6) - Channel(b, 6)) * (Channel(a, 6) - Channel(b, 6))

\* the position of the returned colour in the palette of the call
ReturnedAt(p) == call.palette[p] = call.returned[1]

\* C14: findNearestColor returns a colour of the palette that is at least as
\* near to the target as every colour of the palette, and, of the colours
\* at that least distance, the first.
C14_NearestIsFirstMinimum ==
  (call.fn = "findNearestColor" /\ call.returned # NULL)
  => \E p \in DOMAIN call.palette :
       /\ ReturnedAt(p)
       /\ \A q \in DOMAIN call.palette :
            WeightedSquared(call.targetHex, call.palette[p].hex)
              <= WeightedSquared(call.targetHex, call.palette[q].hex)
       /\ \A q \in 1..(p - 1) :
            WeightedSquared(call.targetHex, call.palette[p].hex)
              < WeightedSquared(call.targetHex, call.palette[q].hex)

\* a tie: the returned colour is the second of three, the third is as near
\* and the first is farther
C14_Witness ==
  /\ call.fn = "findNearestColor"
  /\ call.returned # NULL
  /\ Len(call.palette) = 3
  /\ ReturnedAt(2)
  /\ WeightedSquared(call.targetHex, call.palette[3].hex)
       = WeightedSquared(call.targetHex, call.palette[2].hex)
  /\ WeightedSquared(call.targetHex, call.palette[1].hex)
       > WeightedSquared(call.targetHex, call.palette[2].hex)

\* the entries of a merge map, without their order of insertion
MergedTotals(mergedMap) ==
  {<<MergeKey(mergedMap[j].matchedColor), mergedMap[j].totalAreaCovered>> :
     j \in DOMAIN mergedMap}

\* C15: a run on the same surfaces in another order, with the detections of
\* each surface in another order, merges the same area for each colour, and
\* gives the same totalArea and the same sorted list.
C15_OrderIndependent ==
  (call.fn = "calculateEstimation" /\ call.returned # NULL)
  => LET a == call.returned[1].run
         b == call.returned[1].reorderedRun
     IN /\ MergedTotals(a.mergedMap) = MergedTotals(b.mergedMap)
        /\ Len(a.mergedMap) = Len(b.mergedMap)
        /\ a.totalArea = b.totalArea
        /\ a.results = b.results

\* the colour of palette that is nearest to hex, the first of the nearest
NearestIn(palette, hex) ==
  palette[CHOOSE p \in DOMAIN palette :
            /\ \A q \in DOMAIN palette :
                 WeightedSquared(hex, palette[p].hex) <= WeightedSquared(hex, palette[q].hex)
            /\ \A q \in 1..(p - 1) :
                 WeightedSquared(hex, palette[p].hex) < WeightedSquared(hex, palette[q].hex)]

\* the surfaces with an image and a width and a height above 0, in order
WithImageAndSize(items) ==
  LET Ok(item) == item.image # NoImage /\ item.width > 0 /\ item.height > 0
  IN SelectSeq(items, Ok)

\* one entry per detection of the surfaces from k on: its colour of the
\* palette and the area percentage / 100 * width * height
RECURSIVE ContributionsFrom(_, _, _, _)
ContributionsFrom(surfaces, k, rawColorsOf, palette) ==
  IF k > Len(surfaces) THEN <<>>
  ELSE [n \in DOMAIN rawColorsOf[surfaces[k].image] |->
          LET det == rawColorsOf[surfaces[k].image][n]
          IN [color |-> NearestIn(palette, det.hex),
              area |-> DoubleMul(DoubleDiv(DoubleOf(det.percentage), DoubleOf(100)),
                                 DoubleOf(surfaces[k].width * surfaces[k].height))]]
       \o ContributionsFrom(surfaces, k + 1, rawColorsOf, palette)

\* the sum of the areas of the entries of color, taken from left to right
RECURSIVE AreaOfColor(_, _, _, _)
AreaOfColor(contributions, n, color, sum) ==
  IF n > Len(contributions) THEN sum
  ELSE AreaOfColor(contributions, n + 1, color,
                   IF contributions[n].color = color
                   THEN DoubleAdd(sum, contributions[n].area) ELSE sum)

RECURSIVE SurfaceAreaFrom(_, _)
SurfaceAreaFrom(surfaces, k) ==
  IF k > Len(surfaces) THEN 0
  ELSE surfaces[k].width * surfaces[k].height + SurfaceAreaFrom(surfaces, k + 1)

\* C16: a run that succeeds lists each colour that a detection of a valid
\* surface resolves to once and no other colour; the cans of a colour are
\* the larger of 1 and ceil(area / CAN_COVERAGE), area being the sum of
\* percentage / 100 * width * height over the detections resolved to it;
\* totalArea is the sum of width * height over the valid surfaces.
C16_OneItemPerColorWithSummedArea ==
  (call.fn = "calculateEstimation" /\ call.returned # NULL)
  => LET results == call.returned[1].run.results
         surfaces == WithImageAndSize(call.items)
         contributions ==
           ContributionsFrom(surfaces, 1, call.rawColorsOf,
                             PaletteOf(state.brand, state.line))
         colors == {contributions[n].color : n \in DOMAIN contributions}
         CansOf(color) ==
           LET cans == MathCeil(DoubleDiv(AreaOfColor(contributions, 1, color, DoubleZero),
                                          DoubleOf(CAN_COVERAGE)))
           IN IF cans >= 1 THEN cans ELSE 1
     IN /\ {results[j].matchedColor : j \in DOMAIN results} = colors
        /\ Len(results) = Cardinality(colors)
        /\ \A j \in DOMAIN results :
             results[j].cansRequired = CansOf(results[j].matchedColor)
        /\ call.returned[1].run.totalArea = DoubleOf(SurfaceAreaFrom(surfaces, 1))

\* the run of surfaces 2 m x 2 m (red 50 %, green 50 %) and 1 m x 4 m (red
\* 100 %), beside a surface without an image: red 2 cans and 75 %, green 1
\* can and 25 %, 8 m2 in all
C16_Witness ==
  /\ call.fn = "calculateEstimation"
  /\ call.returned # NULL
  /\ call.items = <<[width |-> 2, height |-> 2, image |-> ImageA],
                    [width |-> 1, height |-> 4, image |-> ImageB]>>
  /\ LET run == call.returned[1].run
     IN /\ run.totalArea = DoubleOf(8)
        /\ Len(run.results) = 2
        /\ run.results[1].matchedColor.name = "Traffic Red"
        /\ run.results[1].cansRequired = 2
        /\ run.results[1].percentage = DoubleOf(75)
        /\ run.results[2].matchedColor.name = "Signal Green"
        /\ run.results[2].cansRequired = 1
        /\ run.results[2].percentage = DoubleOf(25)

\* no surface has an image and a width and a height above 0
NoValidSurface ==
  \A j \in DOMAIN state.items :
    \/ state.items[j].image = NoImage
    \/ state.items[j].width <= 0
    \/ state.items[j].height <= 0

\* C17: while no surface has an image and a positive width and height, no
\* step starts a run: no classifier call is added and loading does not
\* become true, so that a click on the button leaves the state as it is.
C17_NoRunWithoutValidSurface ==
  [][NoValidSurface
     => /\ Len(runs') <= Len(runs)
        /\ state'.loading => state.loading
        /\ (~state.loading /\ runs = <<>>)
             => /\ state'.loading = state.loading
                /\ state'.error = state.error
                /\ state'.totalArea = state.totalArea]_vars

\* the button is enabled and of the two surfaces one has an image but no
\* width, the other a size but no image
C17_Witness ==
  /\ NoValidSurface
  /\ ~state.loading
  /\ runs = <<>>
  /\ Len(state.items) = 2
  /\ \E j \in DOMAIN state.items :
       state.items[j].image # NoImage /\ state.items[j].width = 0
  /\ \E j \in DOMAIN state.items :
       state.items[j].image = NoImage /\ state.items[j].width > 0

\* C18: loading (the spec's inProgress) is true only while an aggregation run
\* is in flight: in every reachable state, loading = TRUE implies that a run
\* started by calculateEstimation has neither completed nor failed yet.  This
\* is also to hold after a snapshot saved during a run is loaded later.
C18_LoadingOnlyWhileRunInFlight ==
  state.loading => runs # <<>>

\* C19: whenever results is present, no two items of results have the same
\* matchedColor identity (brand, line, code): a run emits one item per merge
\* key, addManualColor never inserts a second item for a color already
\* listed, and loadProject installs a list that had the property when saved.
C19_NoTwoItemsOfOneColor ==
  \A j, h \in DOMAIN ResultList :
    j # h => MergeKey(ResultList[j].matchedColor) # MergeKey(ResultList[h].matchedColor)

\* a list of a run (an item with a percentage) to which addManualColor has
\* added an item of another color (percentage 0, one can)
C19_Witness ==
  /\ Len(ResultList) >= 2
  /\ \E j \in DOMAIN ResultList : Lt(0, ResultList[j].percentage)
  /\ \E j \in DOMAIN ResultList :
       /\ ResultList[j].percentage = 0
       /\ ResultList[j].cansRequired = 1

\* what run, waiting for the classification of its surface k, has merged once
\* the classifier has answered with payload
MergedAfter(run, payload) ==
  forEachColor(run.mergedMap, payload.dets, 1, PaletteOf(run.brand, run.line),
               ItemArea(run.validItems[run.k]))

\* the step ends run i
EndsRun(i) == Len(runs') = Len(runs) - 1 /\ runs' = RemoveAt(runs, i)

\* the step takes run i from its surface k to surface k + 1
AdvancesRun(i) == Len(runs') = Len(runs) /\ runs'[i].k = runs[i].k + 1

\* C20: a run works on the surfaces as they were when it started.  A step
\* that starts a run captures the valid surfaces of that moment; a step that
\* changes the surfaces (added, removed, resized, given an image) leaves
\* every run in flight as it is; a run classifies its captured surfaces one
\* after the other, merging with the areas of the captured surfaces; the run
\* that succeeds installs the results and the total area of its captured
\* surfaces; and the end of a run, success or failure, leaves the current
\* surfaces, brand and line unchanged.
C20_RunWorksOnCapturedSurfaces ==
  [][ /\ state'.items # state.items => runs' = runs
      /\ runs' # runs =>
            \/ /\ Len(runs') = Len(runs) + 1
               /\ SubSeq(runs', 1, Len(runs)) = runs
               /\ runs'[Len(runs')].validItems = validItemsOf(state)
               /\ runs'[Len(runs')].k = 1
               /\ state'.items = state.items
            \/ \E i \in DOMAIN runs :
                 /\ AdvancesRun(i)
                 /\ \A j \in DOMAIN runs :
                      /\ runs'[j].validItems = runs[j].validItems
                      /\ j # i => runs'[j] = runs[j]
                 /\ runs[i].k < Len(runs[i].validItems)
                 /\ runs'[i].totalProjectArea =
                      AreaOfFirst(runs[i].validItems, runs[i].k + 1)
                 /\ \E payload \in Payloads :
                      /\ payload.isArray
                      /\ runs'[i].mergedMap = MergedAfter(runs[i], payload)
                 /\ state' = state
            \/ \E i \in DOMAIN runs :
                 /\ EndsRun(i)
                 /\ state'.items = state.items
                 /\ state'.brand = state.brand
                 /\ state'.line = state.line
                 /\ \/ state' = [state EXCEPT !.loading = FALSE,
                                              !.error = AnalysisFailed]
                    \/ /\ runs[i].k = Len(runs[i].validItems)
                       /\ state'.totalArea =
                            AreaOfFirst(runs[i].validItems, Len(runs[i].validItems))
                       /\ \E payload \in Payloads :
                            /\ payload.isArray
                            /\ state'.results =
                                 Some(analysisResultsOf(
                                        MergedAfter(runs[i], payload),
                                        AreaOfFirst(runs[i].validItems,
                                                    Len(runs[i].validItems))))
                       /\ state' = [state EXCEPT !.results = state'.results,
                                                 !.totalArea = state'.totalArea,
                                                 !.loading = FALSE]
    ]_vars

\* a run that captured two surfaces has merged the classification of the
\* first and waits for that of the second, while the list of surfaces has
\* meanwhile lost a surface and the remaining one has been resized
C20_Witness ==
  /\ runs # <<>>
  /\ Len(runs[1].validItems) = 2
  /\ runs[1].k = 2
  /\ runs[1].mergedMap # <<>>
  /\ Len(state.items) = 1
  /\ \A j \in DOMAIN runs[1].validItems :
       runs[1].validItems[j].width # state.items[1].width

====
